---- MODULE Spec2Model ----
(***************************************************************************)
(* Sheepshead rules engine: the game reducer and its provider             *)
(* (GameContext.tsx), the rule functions (gameUtils.ts), the AI heuristics *)
(* (aiUtils.ts) and the storage of the game state (storageUtils.ts).       *)
(*                                                                         *)
(* Arrays are sequences, so a 0-based index i of the source is i + 1 here; *)
(* findIndex's -1 (not found) is 0 here, so that the source's              *)
(* (index + 1) % length is (index % length) + 1 in both cases.             *)
(* `undefined` (leadSuit, partner) is the string "NONE".                   *)
(*                                                                         *)
(* Three specifications: Spec is the reducer under any sequence of         *)
(* dispatches, with a working storage; SpecProvider is the GameProvider    *)
(* as it runs in the page: the load on mount, the setup screen, the cards  *)
(* the human clicks and the timers of the AI players; SpecBury is the      *)
(* picking and the AI's bury over several shuffles of the deck.            *)
(***************************************************************************)
EXTENDS Integers, Sequences, FiniteSets, TLC

VARIABLES
  state,     \* the GameState the reducer holds
  storage,   \* localStorage: the item under GAME_STATE_KEY, and whether writes fail
  pending,   \* the timers handleAITurn has set, in the order they will run out
  deps       \* the dependencies [currentTurn, phase] of the AI effect when it last
             \* ran; <<>> before the first render is committed

vars == <<state, storage, pending, deps>>

(***************************************************************************)
(* Bounds of the model.                                                    *)
(***************************************************************************)
\* number of shuffles (deck orders) START_GAME may draw
NumDecks == 1
\* plays of a round (counted from its first card) in which the card is freely chosen
MaxFreePlays == 1
\* length of the log up to which the dealer may pick or pass out of turn
OutOfTurnWindow == 1
\* legal cards of the highest power among which the human of SpecProvider clicks
MaxStrongCards == 1

(***************************************************************************)
(* Generic sequence helpers (the Array methods the source uses)            *)
(***************************************************************************)
Range(s) == {s[i] : i \in 1..Len(s)}

\* findIndex: the first index whose element satisfies P, 0 when none does
FindIndex(s, P(_)) ==
  IF \E i \in 1..Len(s) : P(s[i])
  THEN CHOOSE i \in 1..Len(s) : P(s[i]) /\ \A j \in 1..(i - 1) : ~P(s[j])
  ELSE 0

\* indexOf
IndexOf(s, x) == FindIndex(s, LAMBDA y : y = x)

RECURSIVE SumSeq(_)
SumSeq(s) == IF s = <<>> THEN 0 ELSE Head(s) + SumSeq(Tail(s))

RECURSIVE Flatten(_)
Flatten(ss) == IF ss = <<>> THEN <<>> ELSE Head(ss) \o Flatten(Tail(ss))

\* Array.prototype.sort with comparator (a, b) => Key(a) - Key(b). The sort is
\* stable: elements with equal keys keep their order.
SortBy(s, Key(_)) ==
  LET Pos(i) == 1 + Cardinality({j \in 1..Len(s) :
                      \/ Key(s[j]) < Key(s[i])
                      \/ Key(s[j]) = Key(s[i]) /\ j < i})
  IN  [p \in 1..Len(s) |-> s[CHOOSE i \in 1..Len(s) : Pos(i) = p]]

(***************************************************************************)
(* types.ts                                                                *)
(***************************************************************************)
Suit == <<"CLUBS", "SPADES", "HEARTS", "DIAMONDS">>

Rank == <<"7", "8", "9", "10", "JACK", "QUEEN", "KING", "ACE">>

GamePhase ==
  {"DEALING", "PICKING", "BURYING", "CALLING_PARTNER", "PLAYING", "SCORING", "GAME_OVER"}

(***************************************************************************)
(* gameUtils.ts: cards                                                     *)
(***************************************************************************)
\* isCardTrump without the jacks
isCardTrump_NoJacks(rank, suit) == rank = "QUEEN" \/ suit = "DIAMONDS"

isCardTrump(rank, suit) == rank = "QUEEN" \/ rank = "JACK" \/ suit = "DIAMONDS"

getCardValue(rank, suit) ==
  CASE rank = "ACE"   -> 11
    [] rank = "10"    -> 10
    [] rank = "KING"  -> 4
    [] rank = "QUEEN" -> 3
    [] rank = "JACK"  -> 2
    [] OTHER          -> 0

\* the Card object initializeDeck builds for (suit, rank)
MakeCard(suit, rank) ==
  [suit |-> suit, rank |-> rank,
   value |-> getCardValue(rank, suit), isTrump |-> isCardTrump(rank, suit)]

\* the deck before the shuffle: suits outermost, ranks innermost
OrderedDeck ==
  [i \in 1..(Len(Suit) * Len(Rank)) |->
     MakeCard(Suit[((i - 1) \div Len(Rank)) + 1], Rank[((i - 1) % Len(Rank)) + 1])]

AllCards == Range(OrderedDeck)

\* The shuffle is a random permutation: the model draws it from NumDecks
\* permutations i -> (stride * i + offset) mod 32 with an odd stride (7, 9, ...).
ShuffledDeck(k) ==
  [i \in 1..Len(OrderedDeck) |->
     OrderedDeck[(((2 * k + 7) * (i - 1) + 5 * k) % Len(OrderedDeck)) + 1]]

initializeDeck == {ShuffledDeck(k) : k \in 0..(NumDecks - 1)}

getCardPower(card) ==
  IF card.isTrump
  THEN CASE card.rank = "QUEEN" ->
              (CASE card.suit = "CLUBS"    -> 31
                 [] card.suit = "SPADES"   -> 30
                 [] card.suit = "HEARTS"   -> 29
                 [] card.suit = "DIAMONDS" -> 28)
         [] card.rank = "JACK" ->
              (CASE card.suit = "CLUBS"    -> 27
                 [] card.suit = "SPADES"   -> 26
                 [] card.suit = "HEARTS"   -> 25
                 [] card.suit = "DIAMONDS" -> 24)
         [] card.rank \notin {"QUEEN", "JACK"} /\ card.suit = "DIAMONDS" ->
              (CASE card.rank = "ACE"  -> 23
                 [] card.rank = "10"   -> 22
                 [] card.rank = "KING" -> 21
                 [] card.rank = "9"    -> 20
                 [] card.rank = "8"    -> 19
                 [] card.rank = "7"    -> 18)
         [] OTHER -> 0
  ELSE CASE card.rank = "ACE"  -> 7
         [] card.rank = "10"   -> 6
         [] card.rank = "KING" -> 5
         [] card.rank = "9"    -> 2
         [] card.rank = "8"    -> 1
         [] card.rank = "7"    -> 0
         [] OTHER              -> 0

calculatePoints(cards) == SumSeq([i \in 1..Len(cards) |-> cards[i].value])


(***************************************************************************)
(* gameUtils.ts: dealing                                                   *)
(***************************************************************************)
\* dealCards that hands the first card to the dealer
\* The k-th card dealt (k from 0) goes to seat (dealer + 1 + k % n) % n, as long
\* as the deck has cards; what is left of the deck is the blind.
dealCards_FromDealer(deck, players) ==
  LET numPlayers     == Len(players)
      cardsPerPlayer == IF numPlayers = 5 THEN 6 ELSE 10
      dealer         == FindIndex(players, LAMBDA p : p.isDealer)
      dealt          == IF cardsPerPlayer * numPlayers < Len(deck)
                        THEN cardsPerPlayer * numPlayers ELSE Len(deck)
      seatOf(k)      == (((dealer - 1) + ((k - 1) % numPlayers)) % numPlayers) + 1
      got(j)         == SelectSeq([k \in 1..dealt |-> k], LAMBDA k : seatOf(k) = j)
  IN  [players |-> [j \in 1..numPlayers |->
                      [players[j] EXCEPT !.cards =
                         players[j].cards \o [m \in 1..Len(got(j)) |-> deck[got(j)[m]]]]],
       blind   |-> SubSeq(deck, dealt + 1, Len(deck))]

dealCards(deck, players) ==
  LET numPlayers     == Len(players)
      cardsPerPlayer == IF numPlayers = 5 THEN 6 ELSE 10
      dealer         == FindIndex(players, LAMBDA p : p.isDealer)
      dealt          == IF cardsPerPlayer * numPlayers < Len(deck)
                        THEN cardsPerPlayer * numPlayers ELSE Len(deck)
      seatOf(k)      == ((dealer + ((k - 1) % numPlayers)) % numPlayers) + 1
      got(j)         == SelectSeq([k \in 1..dealt |-> k], LAMBDA k : seatOf(k) = j)
  IN  [players |-> [j \in 1..numPlayers |->
                      [players[j] EXCEPT !.cards =
                         players[j].cards \o [m \in 1..Len(got(j)) |-> deck[got(j)[m]]]]],
       blind   |-> SubSeq(deck, dealt + 1, Len(deck))]

(***************************************************************************)
(* gameUtils.ts: tricks                                                    *)
(***************************************************************************)
\* the three branches of determineTrickWinner's loop that replace winningCard
Beats(card, winningCard, leadSuit) ==
  \/ card.isTrump /\ ~winningCard.isTrump
  \/ card.isTrump /\ winningCard.isTrump /\ getCardPower(card) > getCardPower(winningCard)
  \/ /\ ~card.isTrump /\ ~winningCard.isTrump /\ card.suit = leadSuit
     /\ getCardPower(card) > getCardPower(winningCard)

\* the loop of determineTrickWinner from position i with winningIndex w
RECURSIVE WinningIndexFrom(_, _, _, _)
WinningIndexFrom(trick, leadSuit, i, w) ==
  IF i > Len(trick) THEN w
  ELSE WinningIndexFrom(trick, leadSuit, i + 1,
                        IF Beats(trick[i], trick[w], leadSuit) THEN i ELSE w)

\* winningIndex after the loop (position in the trick, from 1)
WinningIndex(trick, leadSuit) == WinningIndexFrom(trick, leadSuit, 2, 1)

\* startPlayerIndex is the index of the player AT the winning position, and the
\* winner is the player winningIndex seats after that one.
determineTrickWinner(trick, leadSuit, players) ==
  IF Len(trick) = 0 THEN ""
  ELSE LET winningIndex     == WinningIndex(trick, leadSuit)
           startPlayerIndex == FindIndex(players,
                                 LAMBDA p : p.id = players[winningIndex].id)
           winnerIndex      == (((startPlayerIndex - 1) + (winningIndex - 1))
                                  % Len(players)) + 1
       IN  players[winnerIndex].id

\* isValidPlay without its follow-suit test
isValidPlay_NoFollowSuit(card, player, trick, leadSuit) ==
  IF Len(trick) = 0 THEN TRUE
  ELSE IF /\ leadSuit # "NONE" /\ trick[1].isTrump /\ ~card.isTrump
          /\ \E i \in 1..Len(player.cards) : player.cards[i].isTrump
       THEN FALSE
  ELSE TRUE

isValidPlay(card, player, trick, leadSuit) ==
  IF Len(trick) = 0 THEN TRUE
  ELSE IF /\ leadSuit # "NONE" /\ ~card.isTrump
          /\ \E i \in 1..Len(player.cards) :
                ~player.cards[i].isTrump /\ player.cards[i].suit = leadSuit
          /\ card.suit # leadSuit
       THEN FALSE
  ELSE IF /\ leadSuit # "NONE" /\ trick[1].isTrump /\ ~card.isTrump
          /\ \E i \in 1..Len(player.cards) : player.cards[i].isTrump
       THEN FALSE
  ELSE TRUE

(***************************************************************************)
(* gameUtils.ts: scoring                                                   *)
(***************************************************************************)
\* player.isPicker || player.id === picker?.partner
IsPickerTeam(player, players) ==
  \/ player.isPicker
  \/ \E i \in 1..Len(players) :
        /\ i = FindIndex(players, LAMBDA p : p.isPicker)
        /\ players[i].partner # "NONE"
        /\ player.id = players[i].partner

TrickPoints(player) ==
  SumSeq([t \in 1..Len(player.tricksWon) |-> calculatePoints(player.tricksWon[t])])

\* calculateGameScore without the points of the buried cards
calculateGameScore_TricksOnly(gameState) ==
  LET ps        == gameState.players
      pickerSum == SumSeq([i \in 1..Len(ps) |->
                      IF IsPickerTeam(ps[i], ps) THEN TrickPoints(ps[i]) ELSE 0])
      defenders == SumSeq([i \in 1..Len(ps) |->
                      IF IsPickerTeam(ps[i], ps) THEN 0 ELSE TrickPoints(ps[i])])
  IN  [pickerTeamScore    |-> pickerSum,
       defenderTeamScore  |-> defenders,
       isPicKerTeamWinner |-> pickerSum >= 61,
       pointsWon          |-> IF pickerSum >= 61 THEN pickerSum ELSE defenders]

calculateGameScore(gameState) ==
  LET ps         == gameState.players
      pickerSum  == SumSeq([i \in 1..Len(ps) |->
                       IF IsPickerTeam(ps[i], ps) THEN TrickPoints(ps[i]) ELSE 0])
      defenders  == SumSeq([i \in 1..Len(ps) |->
                       IF IsPickerTeam(ps[i], ps) THEN 0 ELSE TrickPoints(ps[i])])
      pickerTeamScore == IF Len(gameState.buried) > 0
                         THEN pickerSum + calculatePoints(gameState.buried)
                         ELSE pickerSum
  IN  [pickerTeamScore    |-> pickerTeamScore,
       defenderTeamScore  |-> defenders,
       isPicKerTeamWinner |-> pickerTeamScore >= 61,
       pointsWon          |-> IF pickerTeamScore >= 61 THEN pickerTeamScore ELSE defenders]


(***************************************************************************)
(* GameContext.tsx: the reducer. A case that returns `state` itself is a   *)
(* rejected action.                                                        *)
(***************************************************************************)
initialState ==
  [players |-> <<>>, currentTurn |-> "", phase |-> "GAME_OVER", deck |-> <<>>,
   buried |-> <<>>, currentTrick |-> <<>>, leadSuit |-> "NONE", roundNumber |-> 0,
   trickNumber |-> 0, isLeaster |-> FALSE, log |-> <<>>]

\* a log event that leaves out who acted
Event_NoActor(type, playerId, cards) == [type |-> type, playerId |-> "", cards |-> cards]

\* a GameEvent: its type, its playerId and the cards of its data, if any
Event(type, playerId, cards) == [type |-> type, playerId |-> playerId, cards |-> cards]

\* (index + 1) % length, as an index from 1
NextIndex(index, length) == (index % length) + 1

DealerIndex(players) == FindIndex(players, LAMBDA p : p.isDealer)

SameCard(c, card) == c.suit = card.suit /\ c.rank = card.rank

START_GAME(s, roster, deck) ==
  LET initializedPlayers ==
        [i \in 1..Len(roster) |->
           [id |-> roster[i].id, isHuman |-> roster[i].isHuman, cards |-> <<>>,
            score |-> 0, isDealer |-> (i = 1), isPicker |-> FALSE,
            partner |-> "NONE", tricksWon |-> <<>>]]
      d == dealCards(deck, initializedPlayers)
      startingPlayerIndex == NextIndex(DealerIndex(d.players), Len(d.players))
  IN  [s EXCEPT !.players = d.players,
                !.currentTurn = d.players[startingPlayerIndex].id,
                !.phase = "PICKING",
                !.deck = d.blind,
                !.buried = <<>>,
                !.currentTrick = <<>>,
                !.roundNumber = 1,
                !.trickNumber = 0,
                !.isLeaster = FALSE,
                !.log = <<Event("GAME_STARTED", "", <<>>)>>]

\* PICK_BLIND without the isPicker flag
PICK_BLIND_NoPicker(s, playerId) ==
  LET playerIndex == FindIndex(s.players, LAMBDA p : p.id = playerId)
  IN  IF playerIndex = 0 \/ s.phase # "PICKING" THEN s
      ELSE [s EXCEPT !.players[playerIndex].cards = @ \o s.deck,
                     !.deck = <<>>,
                     !.phase = "BURYING",
                     !.log = Append(@, Event("PICKED_BLIND", playerId, <<>>))]

PICK_BLIND(s, playerId) ==
  LET playerIndex == FindIndex(s.players, LAMBDA p : p.id = playerId)
  IN  IF playerIndex = 0 \/ s.phase # "PICKING" THEN s
      ELSE [s EXCEPT !.players[playerIndex].isPicker = TRUE,
                     !.players[playerIndex].cards = @ \o s.deck,
                     !.deck = <<>>,
                     !.phase = "BURYING",
                     !.log = Append(@, Event("PICKED_BLIND", playerId, <<>>))]

\* PASS_BLIND with a phase test that also lets PLAYING through
PASS_BLIND_AnyPhase(s, playerId) ==
  IF s.phase \notin {"PICKING", "PLAYING"} THEN s
  ELSE LET currentPlayerIndex == FindIndex(s.players, LAMBDA p : p.id = playerId)
           nextPlayerIndex    == NextIndex(currentPlayerIndex, Len(s.players))
       IN  [s EXCEPT !.currentTurn = s.players[nextPlayerIndex].id,
                     !.log = Append(@, Event("PASSED_BLIND", playerId, <<>>))]

\* PASS_BLIND that raises isLeaster at every pass
PASS_BLIND_EarlyLeaster(s, playerId) ==
  IF s.phase # "PICKING" THEN s
  ELSE LET currentPlayerIndex == FindIndex(s.players, LAMBDA p : p.id = playerId)
           nextPlayerIndex    == NextIndex(currentPlayerIndex, Len(s.players))
           isLastPlayer       == nextPlayerIndex = DealerIndex(s.players)
       IN  [s EXCEPT !.currentTurn = s.players[nextPlayerIndex].id,
                     !.phase = IF isLastPlayer THEN "PLAYING" ELSE "PICKING",
                     !.isLeaster = TRUE,
                     !.log = Append(@, Event(IF isLastPlayer THEN "ALL_PASSED"
                                             ELSE "PASSED_BLIND", playerId, <<>>))]

PASS_BLIND(s, playerId) ==
  IF s.phase # "PICKING" THEN s
  ELSE LET currentPlayerIndex == FindIndex(s.players, LAMBDA p : p.id = playerId)
           nextPlayerIndex    == NextIndex(currentPlayerIndex, Len(s.players))
           nextPlayer         == s.players[nextPlayerIndex]
           isLastPlayer       == nextPlayerIndex = DealerIndex(s.players)
       IN  IF isLastPlayer
           THEN [s EXCEPT !.currentTurn = nextPlayer.id,
                          !.phase = "PLAYING",
                          !.isLeaster = TRUE,
                          !.log = Append(@, Event("ALL_PASSED", playerId, <<>>))]
           ELSE [s EXCEPT !.currentTurn = nextPlayer.id,
                          !.log = Append(@, Event("PASSED_BLIND", playerId, <<>>))]

\* BURY_CARDS that goes on to CALLING_PARTNER whatever the number of players
BURY_CARDS_AlwaysCall(s, playerId, cards) ==
  IF s.phase # "BURYING" \/ Len(cards) # 2 THEN s
  ELSE LET pickerIndex == FindIndex(s.players, LAMBDA p : p.id = playerId /\ p.isPicker)
       IN  IF pickerIndex = 0 THEN s
           ELSE [s EXCEPT !.players[pickerIndex].cards =
                             SelectSeq(@, LAMBDA card :
                               ~\E i \in 1..Len(cards) : SameCard(cards[i], card)),
                          !.buried = cards,
                          !.phase = "CALLING_PARTNER",
                          !.log = Append(@, Event("BURIED_CARDS", playerId, cards))]

BURY_CARDS(s, playerId, cards) ==
  IF s.phase # "BURYING" \/ Len(cards) # 2 THEN s
  ELSE LET pickerIndex == FindIndex(s.players, LAMBDA p : p.id = playerId /\ p.isPicker)
       IN  IF pickerIndex = 0 THEN s
           ELSE LET remainingCards ==
                      SelectSeq(s.players[pickerIndex].cards,
                                LAMBDA card : ~\E i \in 1..Len(cards) : SameCard(cards[i], card))
                    shouldCallPartner == Len(s.players) = 5
                IN  [s EXCEPT !.players[pickerIndex].cards = remainingCards,
                              !.buried = cards,
                              !.phase = IF shouldCallPartner
                                        THEN "CALLING_PARTNER" ELSE "PLAYING",
                              !.log = Append(@, Event("BURIED_CARDS", playerId, cards))]

\* CALL_PARTNER that takes the call from any player
CALL_PARTNER_AnyCaller(s, playerId, partnerId) ==
  IF s.phase # "CALLING_PARTNER" THEN s
  ELSE LET pickerIndex == FindIndex(s.players, LAMBDA p : p.isPicker)
       IN  IF pickerIndex = 0 THEN s
           ELSE [s EXCEPT !.players[pickerIndex].partner = partnerId,
                          !.phase = "PLAYING",
                          !.log = Append(@, Event("CALLED_PARTNER", playerId, <<>>))]

CALL_PARTNER(s, playerId, partnerId) ==
  IF s.phase # "CALLING_PARTNER" THEN s
  ELSE LET pickerIndex == FindIndex(s.players, LAMBDA p : p.isPicker)
       IN  IF pickerIndex = 0 \/ s.players[pickerIndex].id # playerId THEN s
           ELSE [s EXCEPT !.players[pickerIndex].partner = partnerId,
                          !.phase = "PLAYING",
                          !.log = Append(@, Event("CALLED_PARTNER", playerId, <<>>))]

\* LeasterWinner with the comparison turned round: the first player with the
\* fewest trick points
LeasterWinner_Fewest(players) ==
  LET pts(i) == TrickPoints(players[i])
      best   == FindIndex([i \in 1..Len(players) |-> i],
                          LAMBDA i : \A j \in 1..Len(players) : pts(i) <= pts(j))
  IN  [id |-> players[best].id, maxPoints |-> pts(best)]

\* the leaster branch of END_ROUND's map: the first player with the most trick
\* points, and those points; nobody ("") when no player has a point
LeasterWinner(players) ==
  LET pts(i) == TrickPoints(players[i])
      best   == FindIndex([i \in 1..Len(players) |-> i],
                          LAMBDA i : pts(i) > 0 /\ \A j \in 1..Len(players) : pts(j) <= pts(i))
  IN  IF best = 0 THEN [id |-> "", maxPoints |-> 0]
      ELSE [id |-> players[best].id, maxPoints |-> pts(best)]

\* a round end that leaves the deal with the same seat
END_ROUND_SameDealer(s) ==
  LET score  == calculateGameScore(s)
      picker == FindIndex(s.players, LAMBDA p : p.isPicker)
      newScore(player) ==
        IF ~s.isLeaster /\ picker # 0
        THEN LET isPickerTeam == player.isPicker \/ player.id = s.players[picker].partner
             IN  IF \/ isPickerTeam /\ score.isPicKerTeamWinner
                    \/ ~isPickerTeam /\ ~score.isPicKerTeamWinner
                 THEN player.score + (IF isPickerTeam THEN score.pickerTeamScore
                                                      ELSE score.defenderTeamScore)
                 ELSE player.score
        ELSE IF s.isLeaster /\ player.id = LeasterWinner(s.players).id
        THEN player.score + LeasterWinner(s.players).maxPoints
        ELSE player.score
      newDealerIndex == NextIndex(DealerIndex(s.players), Len(s.players))
      rotatedPlayers ==
        [idx \in 1..Len(s.players) |->
           [s.players[idx] EXCEPT !.score = newScore(s.players[idx]),
                                  !.isDealer = (idx = DealerIndex(s.players)),
                                  !.isPicker = FALSE,
                                  !.partner = "NONE",
                                  !.cards = <<>>,
                                  !.tricksWon = <<>>]]
  IN  [s EXCEPT !.players = rotatedPlayers,
                !.currentTurn = rotatedPlayers[newDealerIndex].id,
                !.phase = "SCORING",
                !.roundNumber = s.roundNumber + 1,
                !.trickNumber = 0,
                !.isLeaster = FALSE,
                !.log = Append(@, Event("ROUND_COMPLETED", "", <<>>))]

END_ROUND(s) ==
  LET score  == calculateGameScore(s)
      picker == FindIndex(s.players, LAMBDA p : p.isPicker)
      newScore(player) ==
        IF ~s.isLeaster /\ picker # 0
        THEN LET isPickerTeam == player.isPicker \/ player.id = s.players[picker].partner
             IN  IF \/ isPickerTeam /\ score.isPicKerTeamWinner
                    \/ ~isPickerTeam /\ ~score.isPicKerTeamWinner
                 THEN player.score + (IF isPickerTeam THEN score.pickerTeamScore
                                                      ELSE score.defenderTeamScore)
                 ELSE player.score
        ELSE IF s.isLeaster /\ player.id = LeasterWinner(s.players).id
        THEN player.score + LeasterWinner(s.players).maxPoints
        ELSE player.score
      newDealerIndex == NextIndex(DealerIndex(s.players), Len(s.players))
      rotatedPlayers ==
        [idx \in 1..Len(s.players) |->
           [s.players[idx] EXCEPT !.score = newScore(s.players[idx]),
                                  !.isDealer = (idx = newDealerIndex),
                                  !.isPicker = FALSE,
                                  !.partner = "NONE",
                                  !.cards = <<>>,
                                  !.tricksWon = <<>>]]
  IN  [s EXCEPT !.players = rotatedPlayers,
                !.currentTurn = rotatedPlayers[newDealerIndex].id,
                !.phase = "SCORING",
                !.roundNumber = s.roundNumber + 1,
                !.trickNumber = 0,
                !.isLeaster = FALSE,
                !.log = Append(@, Event("ROUND_COMPLETED", "", <<>>))]

\* END_TRICK up to its newState: the trick goes to the winner, who leads next
TrickResolved(s) ==
  LET winnerId == determineTrickWinner(
                    s.currentTrick,
                    IF s.leadSuit # "NONE" THEN s.leadSuit ELSE "CLUBS",
                    s.players)
      updatedPlayers ==
        [i \in 1..Len(s.players) |->
           IF s.players[i].id = winnerId
           THEN [s.players[i] EXCEPT !.tricksWon = Append(@, s.currentTrick)]
           ELSE s.players[i]]
  IN  [s EXCEPT !.players = updatedPlayers,
                !.currentTrick = <<>>,
                !.leadSuit = "NONE",
                !.currentTurn = winnerId,
                !.trickNumber = s.trickNumber + 1,
                !.log = Append(@, Event("TRICK_COMPLETED", winnerId, <<>>))]

\* updatedPlayers[0].cards.length === 0
isHandComplete(newState) == Len(newState.players[1].cards) = 0

END_TRICK(s) ==
  IF Len(s.currentTrick) # Len(s.players) THEN s
  ELSE IF isHandComplete(TrickResolved(s)) THEN END_ROUND(TrickResolved(s))
  ELSE TrickResolved(s)

\* the card is played and its suit becomes the lead suit even when it is a trump
CardPlayed_TrumpLeadSuit(s, playerIndex, card) ==
  [s EXCEPT !.players[playerIndex].cards = SelectSeq(@, LAMBDA c : ~SameCard(c, card)),
            !.currentTrick = Append(s.currentTrick, card),
            !.currentTurn = s.players[NextIndex(playerIndex, Len(s.players))].id,
            !.leadSuit = IF Len(s.currentTrick) = 0
                         THEN card.suit ELSE s.leadSuit,
            !.log = Append(@, Event("PLAYED_CARD", s.players[playerIndex].id, <<card>>))]

\* PLAY_CARD up to its newState: the card leaves the hand of the player at
\* playerIndex and joins the trick, and the turn passes to the next seat
CardPlayed(s, playerIndex, card) ==
  [s EXCEPT !.players[playerIndex].cards = SelectSeq(@, LAMBDA c : ~SameCard(c, card)),
            !.currentTrick = Append(s.currentTrick, card),
            !.currentTurn = s.players[NextIndex(playerIndex, Len(s.players))].id,
            !.leadSuit = IF Len(s.currentTrick) = 0 /\ ~card.isTrump
                         THEN card.suit ELSE s.leadSuit,
            !.log = Append(@, Event("PLAYED_CARD", s.players[playerIndex].id, <<card>>))]

\* NEXT_PLAYER: the turn passes to the seat after the player to act, in any
\* phase; nothing changes when currentTurn is no player's id
NEXT_PLAYER(s) ==
  LET currentPlayerIndex == FindIndex(s.players, LAMBDA p : p.id = s.currentTurn)
  IN  IF currentPlayerIndex = 0 THEN s
      ELSE [s EXCEPT !.currentTurn =
                        s.players[NextIndex(currentPlayerIndex, Len(s.players))].id]

\* a play that leaves a full trick on the table
PLAY_CARD_NoCascade(s, playerId, card) ==
  IF s.phase # "PLAYING" \/ s.currentTurn # playerId THEN s
  ELSE LET playerIndex == FindIndex(s.players, LAMBDA p : p.id = playerId)
       IN  IF playerIndex = 0 THEN s
           ELSE IF ~isValidPlay(card, s.players[playerIndex], s.currentTrick, s.leadSuit)
           THEN s
           ELSE CardPlayed(s, playerIndex, card)

PLAY_CARD(s, playerId, card) ==
  IF s.phase # "PLAYING" \/ s.currentTurn # playerId THEN s
  ELSE LET playerIndex == FindIndex(s.players, LAMBDA p : p.id = playerId)
       IN  IF playerIndex = 0 THEN s
           ELSE IF ~isValidPlay(card, s.players[playerIndex], s.currentTrick, s.leadSuit)
           THEN s
           ELSE IF Len(s.currentTrick) + 1 = Len(s.players)
           THEN END_TRICK(CardPlayed(s, playerIndex, card))
           ELSE CardPlayed(s, playerIndex, card)


(***************************************************************************)
(* storageUtils.ts                                                         *)
(***************************************************************************)
\* JSON.stringify: a property whose value is undefined is left out
Serialize(gameState) ==
  LET player(p) ==
        [f \in (DOMAIN p) \ (IF p.partner = "NONE" THEN {"partner"} ELSE {}) |-> p[f]]
      kept == (DOMAIN gameState) \ (IF gameState.leadSuit = "NONE" THEN {"leadSuit"} ELSE {})
  IN  [f \in kept |->
         IF f = "players"
         THEN [i \in 1..Len(gameState.players) |-> player(gameState.players[i])]
         ELSE gameState[f]]

\* JSON.parse, as the program reads the result: a property that is not there
\* reads as undefined
Parse(text) ==
  LET player(p) ==
        [f \in (DOMAIN p) \cup {"partner"} |-> IF f \in DOMAIN p THEN p[f] ELSE "NONE"]
  IN  [f \in (DOMAIN text) \cup {"leadSuit"} |->
         IF f \notin DOMAIN text THEN "NONE"
         ELSE IF f = "players"
         THEN [i \in 1..Len(text.players) |-> player(text.players[i])]
         ELSE text[f]]

\* localStorage with nothing under the key; item is <<>> or <<text>>
EmptyStorage == [item |-> <<>>, failing |-> FALSE]

\* saveGameState that writes PLAYING states only
saveGameState_OnlyPlaying(store, gameState) ==
  IF store.failing \/ gameState.phase # "PLAYING" THEN store
  ELSE [store EXCEPT !.item = <<Serialize(gameState)>>]

\* setItem in a try block: a write that fails is caught and leaves the item
saveGameState(store, gameState) ==
  IF store.failing THEN store
  ELSE [store EXCEPT !.item = <<Serialize(gameState)>>]

\* null when there is no item
loadGameState(store) ==
  IF Len(store.item) = 0 THEN <<>> ELSE <<Parse(store.item[1])>>

LOAD_GAME(s, gameState) == gameState

\* Every case of the reducer that accepts its action saves the state it
\* returns just before returning it, the cascades of PLAY_CARD last; a case
\* that rejects returns before the save.
Persisted(store, s, newState) ==
  IF newState = s THEN store ELSE saveGameState(store, newState)

(***************************************************************************)
(* aiUtils.ts                                                              *)
(***************************************************************************)
PlainSuits == <<"CLUBS", "SPADES", "HEARTS">>

evaluateHandStrength(cards) ==
  LET trumpBonus(c) ==
        IF ~c.isTrump THEN 0
        ELSE 3 + (IF getCardPower(c) > 27 THEN 5
                  ELSE IF getCardPower(c) > 23 THEN 3
                  ELSE IF getCardPower(c) > 18 THEN 1 ELSE 0)
      pointBonus(c) ==
        IF c.rank = "ACE" /\ ~c.isTrump THEN 2
        ELSE IF c.rank = "10" /\ ~c.isTrump THEN 1 ELSE 0
      suitCount(suit) ==
        Cardinality({i \in 1..Len(cards) : ~cards[i].isTrump /\ cards[i].suit = suit})
  IN  SumSeq([i \in 1..Len(cards) |-> trumpBonus(cards[i]) + pointBonus(cards[i])])
        - 2 * Cardinality({k \in 1..Len(PlainSuits) : suitCount(PlainSuits[k]) = 1})

shouldPickBlind(player, gameState) ==
  LET handStrength == evaluateHandStrength(player.cards)
  IN  IF Len(gameState.players) = 3 THEN handStrength >= 10
      ELSE IF Len(gameState.players) = 5 THEN handStrength >= 14
      ELSE handStrength >= 12

\* the order of chooseBuryCards' comparator: plain cards by value, then trump
\* cards by power
BuryKey(c) == IF c.isTrump THEN 100 + getCardPower(c) ELSE c.value

chooseBuryCards(player, blind) ==
  LET allCards         == player.cards \o blind
      sortedCards      == SortBy(allCards, BuryKey)
      candidatesToBury == SubSeq(sortedCards, 1, IF Len(sortedCards) < 4
                                                 THEN Len(sortedCards) ELSE 4)
      zeroPointCards   == SelectSeq(candidatesToBury, LAMBDA card : card.value = 0)
  IN  IF Len(zeroPointCards) >= 2 THEN SubSeq(zeroPointCards, 1, 2)
      ELSE SubSeq(candidatesToBury, 1, IF Len(candidatesToBury) < 2
                                       THEN Len(candidatesToBury) ELSE 2)

isPlayerOnSameTeam(player1, player2, gameState) ==
  LET picker == FindIndex(gameState.players, LAMBDA p : p.isPicker)
  IN  IF picker = 0 THEN FALSE
      ELSE LET partner == gameState.players[picker].partner
           IN  \/ /\ player1.isPicker \/ player1.id = partner
                  /\ player2.isPicker \/ player2.id = partner
               \/ /\ ~player1.isPicker /\ player1.id # partner
                  /\ ~player2.isPicker /\ player2.id # partner

\* player.id === gameState.players.find(p => p.isPicker)?.partner
IsPartner(player, gameState) ==
  LET picker == FindIndex(gameState.players, LAMBDA p : p.isPicker)
  IN  picker # 0 /\ player.id = gameState.players[picker].partner

PowerKey(c) == getCardPower(c)

NegPowerKey(c) == 0 - getCardPower(c)

ValueKey(c) == c.value

\* [0] of an array: the first element, `undefined` (<<>> here) when it is empty
First(s) == IF Len(s) = 0 THEN <<>> ELSE s[1]

chooseLeadCard(player, validPlays, gameState) ==
  LET trumps      == SortBy(SelectSeq(validPlays, LAMBDA c : c.isTrump), NegPowerKey)
      aces        == SelectSeq(validPlays, LAMBDA c : ~c.isTrump /\ c.rank = "ACE")
      tens        == SelectSeq(validPlays, LAMBDA c : ~c.isTrump /\ c.rank = "10")
      ofSuit(suit) == SelectSeq(validPlays, LAMBDA c : ~c.isTrump /\ c.suit = suit)
      singleton   == FindIndex(PlainSuits, LAMBDA suit : Len(ofSuit(suit)) = 1)
      lowCards    == SortBy(SelectSeq(validPlays, LAMBDA c : ~c.isTrump /\ c.value = 0),
                            PowerKey)
      lowest      == First(SortBy(validPlays, PowerKey))
  IN  IF player.isPicker \/ IsPartner(player, gameState)
      THEN IF Len(trumps) > 0 /\ getCardPower(trumps[1]) > 25 THEN trumps[1]
           ELSE IF Len(aces) > 0 THEN aces[1]
           ELSE IF Len(tens) > 0 THEN tens[1]
           ELSE lowest
      ELSE IF singleton # 0 THEN ofSuit(PlainSuits[singleton])[1]
           ELSE IF Len(lowCards) > 0 THEN lowCards[1]
           ELSE lowest

chooseFollowCard(player, validPlays, gameState) ==
  LET currentTrick == gameState.currentTrick
      leadSuit     == gameState.leadSuit
      highestCard  == currentTrick[WinningIndex(currentTrick, leadSuit)]
      isTeamWinning ==
        isPlayerOnSameTeam(gameState.players[IndexOf(currentTrick, highestCard)],
                           player, gameState)
      trickValue   == calculatePoints(currentTrick)
      winningCards == SortBy(SelectSeq(validPlays,
                                       LAMBDA card : Beats(card, highestCard, leadSuit)),
                             PowerKey)
      canWin       == Len(winningCards) > 0
  IN  IF isTeamWinning THEN First(SortBy(validPlays, ValueKey))
      ELSE IF (player.isPicker \/ IsPartner(player, gameState) \/ trickValue >= 10) /\ canWin
           THEN winningCards[1]
           ELSE First(SortBy(validPlays, ValueKey))

\* the cards of the hand that isValidPlay accepts, in hand order
ValidPlays(player, gameState) ==
  SelectSeq(player.cards,
            LAMBDA card : isValidPlay(card, player, gameState.currentTrick,
                                      gameState.leadSuit))

\* a choice that takes the first card of the hand, legal or not
chooseCardToPlay_FirstCard(player, gameState) == player.cards[1]

chooseCardToPlay(player, gameState) ==
  LET validPlays == ValidPlays(player, gameState)
  IN  IF Len(validPlays) = 1 THEN validPlays[1]
      ELSE IF Len(gameState.currentTrick) = 0
           THEN chooseLeadCard(player, validPlays, gameState)
           ELSE chooseFollowCard(player, validPlays, gameState)


(***************************************************************************)
(* The inputs of the actions                                               *)
(***************************************************************************)
\* SetupScreen: one human player and playerCount - 1 AI players, 3 to 5 in all
PlayerIds == <<"human-player", "ai-player-1", "ai-player-2", "ai-player-3", "ai-player-4">>

PlayerCounts == {3, 4, 5}

Roster(playerCount) ==
  [i \in 1..playerCount |-> [id |-> PlayerIds[i], isHuman |-> (i = 1)]]

Ids(s) == {s.players[i].id : i \in 1..Len(s.players)}

\* the player whose id is playerId
PlayerOf(s, playerId) == s.players[FindIndex(s.players, LAMBDA p : p.id = playerId)]

\* the first card of the ordered deck that is not in the hand
ForeignCard(hand) ==
  OrderedDeck[FindIndex(OrderedDeck, LAMBDA c : \A i \in 1..Len(hand) : hand[i] # c)]

\* cards played so far in the round
PlayedSoFar(s) == s.trickNumber * Len(s.players) + Len(s.currentTrick)

\* The seats that dispatch a pick or a pass: the seat to act and, while the log
\* is no longer than OutOfTurnWindow, the dealer out of turn.
PickActors(s) ==
  {p \in Ids(s) : \/ p = s.currentTurn
                  \/ Len(s.log) <= OutOfTurnWindow /\ PlayerOf(s, p).isDealer}

\* The pairs offered to BURY_CARDS: the AI's choice, the first card of the hand
\* twice, and two cards that are not in the hand.
BuryInputs(s, playerId) ==
  IF playerId \notin Ids(s) \/ Len(PlayerOf(s, playerId).cards) < 2 THEN {}
  ELSE LET hand == PlayerOf(s, playerId).cards
           f1   == ForeignCard(hand)
       IN  {chooseBuryCards(PlayerOf(s, playerId), <<>>),
            <<hand[1], hand[1]>>,
            <<f1, ForeignCard(Append(hand, f1))>>}

\* The ids offered to CALL_PARTNER: the AI's choice (the first player who is not
\* the picker), the picker itself and an id that is no player's.
PartnerInputs(s, playerId) ==
  LET other == FindIndex(s.players, LAMBDA p : ~p.isPicker)
  IN  {IF other = 0 THEN "" ELSE s.players[other].id, playerId, "nobody"}

\* The cards offered to PLAY_CARD for the player to act: what chooseCardToPlay
\* returns; during the first MaxFreePlays plays of the round also the first
\* legal card of the hand and a card that is not in the hand.
PlayInputs(s, playerId) ==
  IF playerId \notin Ids(s) THEN {}
  ELSE LET player == PlayerOf(s, playerId)
           valid  == ValidPlays(player, s)
       IN  (IF Len(valid) > 0 THEN {chooseCardToPlay(player, s)} ELSE {})
           \cup (IF PlayedSoFar(s) < MaxFreePlays
                 THEN (IF Len(valid) > 0 THEN {valid[1]} ELSE {})
                      \cup {ForeignCard(player.cards)}
                 ELSE {})

(***************************************************************************)
(* The state machine. A dispatch the reducer rejects returns the state it  *)
(* was given: it is a stuttering step, which [Next]_vars allows anywhere.  *)
(* The actions below are the dispatches the reducer accepts.               *)
(***************************************************************************)
Init == state = initialState /\ storage = EmptyStorage /\ pending = <<>> /\ deps = <<>>

\* the rest of a dispatch made straight to the reducer
Dispatched ==
  /\ storage' = Persisted(storage, state, state')
  /\ UNCHANGED <<pending, deps>>

\* startGame: the setup screen starts a game when none is in progress
StartGame ==
  /\ state.phase = "GAME_OVER" /\ Len(state.players) = 0
  /\ \E playerCount \in PlayerCounts, deck \in initializeDeck :
        state' = START_GAME(state, Roster(playerCount), deck)
  /\ Dispatched

PickBlind ==
  /\ state.phase = "PICKING"
  /\ \E playerId \in PickActors(state) : state' = PICK_BLIND(state, playerId)
  /\ Dispatched

PassBlind ==
  /\ state.phase = "PICKING"
  /\ \E playerId \in PickActors(state) : state' = PASS_BLIND(state, playerId)
  /\ Dispatched

BuryCards ==
  /\ state.phase = "BURYING"
  /\ \E playerId \in {p \in Ids(state) : PlayerOf(state, p).isPicker} :
       \E cards \in BuryInputs(state, playerId) :
         state' = BURY_CARDS(state, playerId, cards)
  /\ Dispatched

CallPartner ==
  /\ state.phase = "CALLING_PARTNER"
  /\ \E playerId \in {p \in Ids(state) : PlayerOf(state, p).isPicker} :
       \E partnerId \in PartnerInputs(state, playerId) :
         state' = CALL_PARTNER(state, playerId, partnerId)
  /\ Dispatched

PlayCard ==
  /\ state.phase = "PLAYING"
  /\ \E card \in PlayInputs(state, state.currentTurn) :
       state' = PLAY_CARD(state, state.currentTurn, card)
  /\ Dispatched

\* dispatch of START_GAME after a round was scored: the only action of the
\* reducer that deals cards
DealAgain ==
  /\ state.phase = "SCORING"
  /\ \E deck \in initializeDeck :
        state' = START_GAME(state, Roster(Len(state.players)), deck)
  /\ Dispatched

Next ==
  \/ StartGame \/ PickBlind \/ PassBlind \/ BuryCards \/ CallPartner \/ PlayCard
  \/ DealAgain

Spec == Init /\ [][Next]_vars

(***************************************************************************)
(* The GameProvider in the page.  A dispatch that changes the state        *)
(* re-renders, and the effects of a render run before the next dispatch    *)
(* is handled.  The human is always the first player of the roster, which  *)
(* START_GAME makes the dealer; the pick, pass and bury controls show only *)
(* when the human is the player to act, which PASS_BLIND never lets the    *)
(* dealer be during PICKING, so the human acts through the setup screen    *)
(* and the cards only.                                                     *)
(***************************************************************************)
\* what storage may hold under the key when the page opens: nothing, or a
\* stored round that has lost the first card of a hand
LeftInStorage ==
  LET dealt == START_GAME(initialState, Roster(3), ShuffledDeck(0))
  IN  {<<>>,
       <<Serialize([dealt EXCEPT !.players[1].cards = Tail(@), !.phase = "SCORING"])>>}

\* the first render is committed and its effects have run
Mounted == deps # <<>>

\* the dependency array of the AI effect in the render that shows s
Dependencies(s) == <<s.currentTurn, s.phase>>

\* no effect is waiting to run
EffectsFlushed == deps = Dependencies(state)

\* the condition handleAITurn and the effect that calls it both test
IsAITurn(s) ==
  /\ s.currentTurn \in Ids(s)
  /\ ~PlayerOf(s, s.currentTurn).isHuman
  /\ s.phase # "GAME_OVER"

\* handleAITurn of the render that shows s: the timer it sets, if any; the
\* callback keeps the state of that render
handleAITurn(s) ==
  IF IsAITurn(s) THEN <<[captured |-> s]>> ELSE <<>>

\* the body of the effect with dependencies [state.currentTurn, state.phase]
AIEffect(s) == IF IsAITurn(s) THEN handleAITurn(s) ELSE <<>>

\* The callback of the timer: its decisions come from the state the timer
\* kept, its dispatches go to the state s the reducer holds now.  With no
\* card to play chooseCardToPlay returns undefined.  PLAY_CARD raises on it
\* (card.isTrump), or, when a trump was led, puts it in the trick, where
\* the next reading of the trick raises.  The model ends the play of that
\* AI player here: s stays.
TimerCallback(captured, s) ==
  LET currentPlayer == PlayerOf(captured, captured.currentTurn)
      other == FindIndex(captured.players, LAMBDA p : ~p.isPicker)
  IN  CASE captured.phase = "PICKING" ->
             IF shouldPickBlind(currentPlayer, captured)
             THEN LET picked == PICK_BLIND(s, currentPlayer.id)
                  IN  IF currentPlayer.isPicker
                      THEN BURY_CARDS(picked, currentPlayer.id,
                                      chooseBuryCards(currentPlayer, captured.deck))
                      ELSE picked
             ELSE PASS_BLIND(s, currentPlayer.id)
        [] captured.phase = "BURYING" ->
             IF currentPlayer.isPicker
             THEN BURY_CARDS(s, currentPlayer.id, chooseBuryCards(currentPlayer, <<>>))
             ELSE s
        [] captured.phase = "CALLING_PARTNER" ->
             IF currentPlayer.isPicker
             THEN CALL_PARTNER(s, currentPlayer.id,
                               IF other = 0 THEN "" ELSE captured.players[other].id)
             ELSE s
        [] captured.phase = "PLAYING" ->
             IF Len(ValidPlays(currentPlayer, captured)) = 0 THEN s
             ELSE PLAY_CARD(s, currentPlayer.id, chooseCardToPlay(currentPlayer, captured))
        [] OTHER -> s

\* The cards a click of the human plays: legal cards of the hand.  The model
\* takes the card chooseCardToPlay would play and the MaxStrongCards legal
\* cards of the highest power.
ClickableCards(s) ==
  LET player == PlayerOf(s, s.currentTurn)
      valid  == ValidPlays(player, s)
      strong == SortBy(valid, NegPowerKey)
  IN  IF Len(valid) = 0 THEN {}
      ELSE {chooseCardToPlay(player, s)}
             \cup {strong[i] : i \in 1..(IF Len(strong) < MaxStrongCards
                                          THEN Len(strong) ELSE MaxStrongCards)}

InitProvider ==
  /\ state = initialState
  /\ storage \in {[item |-> item, failing |-> failing] :
                    item \in LeftInStorage, failing \in BOOLEAN}
  /\ pending = <<>>
  /\ deps = <<>>

\* the effects of the first render: LOAD_GAME with what loadGameState
\* returns, unless that is null, and the AI effect for the initial state
Mount ==
  /\ ~Mounted
  /\ LET savedState == loadGameState(storage)
     IN  state' = IF Len(savedState) = 0 THEN state ELSE LOAD_GAME(state, savedState[1])
  /\ pending' = pending \o AIEffect(state)
  /\ deps' = Dependencies(state)
  /\ UNCHANGED storage

\* the AI effect after a render in which currentTurn or phase has changed
RunEffect ==
  /\ Mounted /\ ~EffectsFlushed
  /\ pending' = pending \o AIEffect(state)
  /\ deps' = Dependencies(state)
  /\ UNCHANGED <<state, storage>>

\* SetupScreen, shown until a game has started
SetupStart ==
  /\ EffectsFlushed
  /\ ~(state.phase # "GAME_OVER" /\ Len(state.players) > 0)
  /\ \E playerCount \in PlayerCounts, deck \in initializeDeck :
        state' = START_GAME(state, Roster(playerCount), deck)
  /\ storage' = Persisted(storage, state, state')
  /\ UNCHANGED <<pending, deps>>

\* Player: a click on a card of the human's hand
HumanPlay ==
  /\ EffectsFlushed
  /\ state.phase = "PLAYING"
  /\ state.currentTurn \in Ids(state) /\ PlayerOf(state, state.currentTurn).isHuman
  /\ \E card \in ClickableCards(state) :
        state' = PLAY_CARD(state, state.currentTurn, card)
  /\ storage' = Persisted(storage, state, state')
  /\ UNCHANGED <<pending, deps>>

\* the oldest timer runs out: all timers wait 500 ms
AITimer ==
  /\ EffectsFlushed /\ pending # <<>>
  /\ state' = TimerCallback(Head(pending).captured, state)
  /\ storage' = Persisted(storage, state, state')
  /\ pending' = Tail(pending)
  /\ UNCHANGED deps

NextProvider == Mount \/ RunEffect \/ SetupStart \/ HumanPlay \/ AITimer

SpecProvider == InitProvider /\ [][NextProvider]_vars

\* what an AITimer step does to pending, and no other step does
TimerRuns == EffectsFlushed /\ pending # <<>> /\ pending' = Tail(pending)

\* the effects of a render run, and a timer that was set runs out
LiveProvider ==
  SpecProvider /\ WF_vars(Mount) /\ WF_vars(RunEffect) /\ WF_pending(TimerRuns)


(***************************************************************************)
(* Inputs the properties range over: ids, cards and pairs of cards a       *)
(* caller may hand to the reducer in the given state.                      *)
(***************************************************************************)
AnyId(s) == Ids(s) \cup {"nobody"}

\* pairs of cards: for the first card of every suit and for every queen, the
\* card twice and the card with the next card of the ordered deck
AnyPair ==
  UNION {{<<OrderedDeck[i], OrderedDeck[i]>>,
           <<OrderedDeck[i], OrderedDeck[(i % Len(OrderedDeck)) + 1]>>} :
            i \in {k \in 1..Len(OrderedDeck) :
                     OrderedDeck[k].rank \in {"7", "QUEEN"}}}

\* every card held anywhere in the state, in the order hands, blind, buried,
\* current trick, tricks won
AllHeld(s) ==
  Flatten([i \in 1..Len(s.players) |-> s.players[i].cards])
    \o s.deck \o s.buried \o s.currentTrick
    \o Flatten([i \in 1..Len(s.players) |-> Flatten(s.players[i].tricksWon)])

(***************************************************************************)
(* C1: once START_GAME has dealt, the cards in all hands, the blind, the   *)
(* buried pile, the current trick and all tricks won number 32 and no card *)
(* is in two places, in every state the player actions reach (SCORING      *)
(* included).                                                              *)
(***************************************************************************)
C1_CardsConserved ==
  Len(state.players) > 0 =>
    /\ Len(AllHeld(state)) = Len(OrderedDeck)
    /\ Cardinality(Range(AllHeld(state))) = Len(OrderedDeck)

(***************************************************************************)
(* C2: a pick, pass, bury, callPartner or playCard whose playerId is not   *)
(* the player to act is rejected (the reducer returns the state it was     *)
(* given), in every phase and for every seat that is not to act.           *)
(***************************************************************************)
C2_WrongActorRejected ==
  \A playerId \in AnyId(state) \ {state.currentTurn} :
    /\ PICK_BLIND(state, playerId) = state
    /\ PASS_BLIND(state, playerId) = state
    /\ \A cards \in AnyPair : BURY_CARDS(state, playerId, cards) = state
    /\ \A partnerId \in AnyId(state) : CALL_PARTNER(state, playerId, partnerId) = state
    /\ \A card \in AllCards : PLAY_CARD(state, playerId, card) = state

(***************************************************************************)
(* C3: a pick or pass outside PICKING, a bury outside BURYING, a           *)
(* callPartner outside CALLING_PARTNER and a playCard outside PLAYING      *)
(* return the state unchanged, whoever dispatches them and whatever cards  *)
(* or partner they name.                                                   *)
(***************************************************************************)
C3_WrongPhaseRejected ==
  \A playerId \in AnyId(state) :
    /\ state.phase # "PICKING" =>
         PICK_BLIND(state, playerId) = state /\ PASS_BLIND(state, playerId) = state
    /\ state.phase # "BURYING" =>
         \A cards \in AnyPair : BURY_CARDS(state, playerId, cards) = state
    /\ state.phase # "CALLING_PARTNER" =>
         \A partnerId \in AnyId(state) : CALL_PARTNER(state, playerId, partnerId) = state
    /\ state.phase # "PLAYING" =>
         \A card \in AllCards : PLAY_CARD(state, playerId, card) = state

\* a leaster is being played, the seat to act holds cards, and its pick, its
\* pass, its bury of two of its own cards and its call of a partner are rejected
C3_Witness ==
  /\ state.phase = "PLAYING" /\ state.isLeaster /\ state.trickNumber > 0
  /\ \E i \in 1..Len(state.players) :
       LET p == state.players[i]
       IN  /\ p.id = state.currentTurn /\ Len(p.cards) >= 2
           /\ PICK_BLIND(state, p.id) = state
           /\ PASS_BLIND(state, p.id) = state
           /\ BURY_CARDS(state, p.id, <<p.cards[1], p.cards[2]>>) = state
           /\ CALL_PARTNER(state, p.id, state.players[1].id) = state


(***************************************************************************)
(* The last completed trick, read from the log: a TRICK_COMPLETED event is *)
(* preceded by the PLAYED_CARD events of the trick's cards, in play order. *)
(***************************************************************************)
LastEvent(s) == s.log[Len(s.log)]

TrickJustCompleted(s) ==
  /\ s.phase = "PLAYING" /\ Len(s.log) > Len(s.players)
  /\ LastEvent(s).type = "TRICK_COMPLETED"

\* the PLAYED_CARD events of the trick completed last
LastTrickEvents(s) == SubSeq(s.log, Len(s.log) - Len(s.players), Len(s.log) - 1)

LastTrick(s) == [i \in 1..Len(s.players) |-> LastTrickEvents(s)[i].cards[1]]

\* The rule of the game: the position of the highest-power trump of the trick
\* or, when the trick holds no trump, of the highest-power card of the suit led
\* (the first such position when a card is there twice).
HighestPosition(trick) ==
  LET trumps    == {i \in 1..Len(trick) : trick[i].isTrump}
      followers == {i \in 1..Len(trick) :
                      ~trick[i].isTrump /\ trick[i].suit = trick[1].suit}
      among     == IF trumps # {} THEN trumps ELSE followers
  IN  CHOOSE i \in among :
        \A j \in among :
          \/ getCardPower(trick[j]) < getCardPower(trick[i])
          \/ getCardPower(trick[j]) = getCardPower(trick[i]) /\ i <= j

(***************************************************************************)
(* C4: when a trick receives its last card, the whole trick is appended to *)
(* tricksWon of the player who played the winning card, whoever led, and   *)
(* that player is the next to act; the trick buffer and leadSuit are       *)
(* cleared.                                                                *)
(***************************************************************************)
C4_TrickGoesToWinner ==
  TrickJustCompleted(state) =>
    LET actual == LastTrickEvents(state)[HighestPosition(LastTrick(state))].playerId
        won    == PlayerOf(state, actual).tricksWon
    IN  /\ state.currentTurn = actual
        /\ Len(won) > 0 /\ won[Len(won)] = LastTrick(state)
        /\ state.currentTrick = <<>>
        /\ state.leadSuit = "NONE"

(***************************************************************************)
(* C5: for a complete trick in play order and the players in order from    *)
(* the leader, determineTrickWinner returns the id of the player who       *)
(* played the highest-power trump or, when no trump was played, the        *)
(* highest-power card of the suit led; the trick Queen of clubs, Jack of   *)
(* clubs, Ace of diamonds goes to the player of the Queen of clubs.        *)
(***************************************************************************)
C5_WinnerIsHighestCard ==
  /\ determineTrickWinner(
       <<MakeCard("CLUBS", "QUEEN"), MakeCard("CLUBS", "JACK"), MakeCard("DIAMONDS", "ACE")>>,
       "DIAMONDS", SubSeq(Roster(3), 1, 3)) = PlayerIds[1]
  /\ TrickJustCompleted(state) =>
       LET trick       == LastTrick(state)
           fromLeader  == [i \in 1..Len(trick) |->
                             PlayerOf(state, LastTrickEvents(state)[i].playerId)]
           leadSuits   == IF trick[1].isTrump THEN Range(Suit) ELSE {trick[1].suit}
       IN  \A leadSuit \in leadSuits :
             determineTrickWinner(trick, leadSuit, fromLeader)
               = fromLeader[HighestPosition(trick)].id

(***************************************************************************)
(* C6: a leaster (PLAYING with isLeaster) is entered only after every      *)
(* player, the dealer included, has been the player to act in PICKING and  *)
(* has passed.                                                             *)
(***************************************************************************)
IsPass(event) == event.type \in {"PASSED_BLIND", "ALL_PASSED"}

\* the player to act when the i-th event of the log was dispatched, in a round
\* whose events after GAME_STARTED are passes: the seat after the dealer, then
\* the seat after the one who passed last
TurnAtEvent(s, i) ==
  LET before == IF i = 2 THEN DealerIndex(s.players)
                ELSE FindIndex(s.players, LAMBDA p : p.id = s.log[i - 1].playerId)
  IN  s.players[NextIndex(before, Len(s.players))].id

PassedInTurn(s, playerId) ==
  \E i \in 2..Len(s.log) :
    /\ IsPass(s.log[i]) /\ s.log[i].playerId = playerId
    /\ \A j \in 2..(i - 1) : IsPass(s.log[j])
    /\ TurnAtEvent(s, i) = playerId

C6_LeasterAfterAllPassed ==
  (state.phase = "PLAYING" /\ state.isLeaster) =>
    \A playerId \in Ids(state) : PassedInTurn(state, playerId)

(***************************************************************************)
(* C7: when all players pass and the round becomes a leaster, the player   *)
(* to act for the first trick is the seat immediately after the dealer.    *)
(***************************************************************************)
C7_LeasterLeadAfterDealer ==
  (state.phase = "PLAYING" /\ state.isLeaster /\ LastEvent(state).type = "ALL_PASSED") =>
    state.currentTurn =
      state.players[NextIndex(DealerIndex(state.players), Len(state.players))].id

(***************************************************************************)
(* C8: a bury whose two cards are not two distinct cards of the picker's   *)
(* hand is rejected with the state unchanged; an accepted bury takes       *)
(* exactly those two cards out of the picker's hand and makes them the     *)
(* buried pile, so the hand shrinks by two.                                *)
(***************************************************************************)
C8_BuryFromHand ==
  state.phase = "BURYING" =>
    \A i \in 1..Len(state.players) :
      \A cards \in AnyPair \cup BuryInputs(state, state.players[i].id) :
        LET hand   == state.players[i].cards
            after  == BURY_CARDS(state, state.players[i].id, cards)
            inHand == /\ cards[1] # cards[2]
                      /\ cards[1] \in Range(hand) /\ cards[2] \in Range(hand)
        IN  /\ ~inHand => after = state
            /\ after # state =>
                 /\ after.buried = cards
                 /\ Len(after.players[i].cards) = Len(hand) - 2
                 /\ after.players[i].cards =
                      SelectSeq(hand, LAMBDA c : c # cards[1] /\ c # cards[2])

(***************************************************************************)
(* C9: when the player to act follows (the trick is not empty) and holds a *)
(* plain card of leadSuit, the only cards of the hand that isValidPlay and *)
(* playCard accept are plain cards of leadSuit: a plain card of another    *)
(* suit and a trump card are rejected.                                     *)
(***************************************************************************)
HoldsPlain(player, suit) ==
  \E i \in 1..Len(player.cards) : ~player.cards[i].isTrump /\ player.cards[i].suit = suit

C9_MustFollowSuit ==
  (state.phase = "PLAYING" /\ Len(state.currentTrick) > 0
     /\ state.currentTurn \in Ids(state)) =>
    LET player == PlayerOf(state, state.currentTurn)
    IN  HoldsPlain(player, state.leadSuit) =>
          \A card \in Range(player.cards) :
            (\/ isValidPlay(card, player, state.currentTrick, state.leadSuit)
             \/ PLAY_CARD(state, player.id, card) # state)
              => ~card.isTrump /\ card.suit = state.leadSuit

(***************************************************************************)
(* C10: for the hand of every player, every card of the deck and every     *)
(* suit led, with a trick that is not empty, isValidPlay rejects a plain   *)
(* card of another suit than the one led when the hand holds a plain card  *)
(* of the suit led; with an empty trick it accepts every card.             *)
(***************************************************************************)
\* the tricks the property is tried on: the current trick, a trick led with a
\* plain card and a trick led with a trump
SomeTricks(s) ==
  {s.currentTrick, <<MakeCard("HEARTS", "ACE")>>, <<MakeCard("CLUBS", "QUEEN")>>}

C10_OffSuitRejected ==
  \A i \in 1..Len(state.players) :
    /\ \A card \in AllCards :
         /\ isValidPlay(card, state.players[i], <<>>, "NONE")
         /\ \A leadSuit \in Range(Suit) : isValidPlay(card, state.players[i], <<>>, leadSuit)
    /\ \A leadSuit \in Range(Suit) :
         HoldsPlain(state.players[i], leadSuit) =>
           \A card \in {c \in AllCards : ~c.isTrump /\ c.suit # leadSuit} :
             \A trick \in SomeTricks(state) :
               Len(trick) > 0 => ~isValidPlay(card, state.players[i], trick, leadSuit)

\* the player to act follows, holds a plain card of the suit led and a plain
\* card of another suit, and the play of the latter is rejected
C10_Witness ==
  /\ state.phase = "PLAYING" /\ Len(state.currentTrick) > 0
  /\ \E i \in 1..Len(state.players) :
       LET p == state.players[i]
       IN  /\ p.id = state.currentTurn
           /\ HoldsPlain(p, state.leadSuit)
           /\ \E card \in Range(p.cards) :
                /\ ~card.isTrump /\ card.suit # state.leadSuit
                /\ ~isValidPlay(card, p, state.currentTrick, state.leadSuit)
                /\ PLAY_CARD(state, p.id, card) = state


(***************************************************************************)
(* The end of a trick and of a round, seen from the state in which the     *)
(* last card of the trick is about to be played.                           *)
(***************************************************************************)
CompletesTrick(s) ==
  /\ s.phase = "PLAYING" /\ s.currentTurn \in Ids(s)
  /\ Len(s.currentTrick) + 1 = Len(s.players)

ToActIndex(s) == FindIndex(s.players, LAMBDA p : p.id = s.currentTurn)

\* the state once the trick that card completes is resolved, before any scoring
AfterTrick(s, card) == TrickResolved(CardPlayed(s, ToActIndex(s), card))

\* the cards the model plays in s that the reducer accepts
AcceptedPlays(s) ==
  {card \in PlayInputs(s, s.currentTurn) : PLAY_CARD(s, s.currentTurn, card) # s}

(***************************************************************************)
(* C11: the cascade of playCard moves the phase to SCORING only when every *)
(* player's hand is empty; while a player still holds a card after the     *)
(* trick is resolved, the phase stays PLAYING.                             *)
(***************************************************************************)
C11_ScoringOnlyWhenHandsEmpty ==
  CompletesTrick(state) =>
    \A card \in AcceptedPlays(state) :
      LET hands == AfterTrick(state, card).players
          after == PLAY_CARD(state, state.currentTurn, card)
      IN  /\ after.phase = "SCORING" => \A i \in 1..Len(hands) : hands[i].cards = <<>>
          /\ (\E i \in 1..Len(hands) : hands[i].cards # <<>>) => after.phase = "PLAYING"

(***************************************************************************)
(* C12: in every reachable PLAYING state, with 3, 4 or 5 players, the      *)
(* player to act holds a card that playCard accepts: no state is stuck     *)
(* with the player to act holding no card.                                 *)
(***************************************************************************)
C12_PlayerToActCanPlay ==
  state.phase = "PLAYING" =>
    /\ state.currentTurn \in Ids(state)
    /\ \E card \in Range(PlayerOf(state, state.currentTurn).cards) :
         PLAY_CARD(state, state.currentTurn, card) # state

(***************************************************************************)
(* C13: at the end of a round that is not a leaster, the score of every    *)
(* member of the picker's team grows by the picker team's points and the   *)
(* score of every defender by the defenders' points.                       *)
(***************************************************************************)
C13_BothTeamsCredited ==
  (CompletesTrick(state) /\ ~state.isLeaster) =>
    \A card \in AcceptedPlays(state) :
      LET before == AfterTrick(state, card)
          after  == PLAY_CARD(state, state.currentTurn, card)
          score  == calculateGameScore(before)
      IN  after.phase = "SCORING" =>
            \A i \in 1..Len(before.players) :
              after.players[i].score =
                before.players[i].score
                  + (IF IsPickerTeam(before.players[i], before.players)
                     THEN score.pickerTeamScore ELSE score.defenderTeamScore)


(***************************************************************************)
(* C14: the picker team's total of calculateGameScore is the points of the *)
(* tricks won by the picker and by the called partner plus the points of   *)
(* the buried cards, the defenders' total is the points of the tricks of   *)
(* everybody else, and the picker team wins exactly when its total is at   *)
(* least 61: with 60 points each the defenders win.                        *)
(***************************************************************************)
\* the seats of the picker and of the partner the picker called
PickerTeamSeats(s) ==
  {i \in 1..Len(s.players) :
     \/ s.players[i].isPicker
     \/ \E j \in 1..Len(s.players) :
          s.players[j].isPicker /\ s.players[j].partner = s.players[i].id}

\* the points of all the cards in the tricks of the seats
PointsOfSeats(s, seats) ==
  calculatePoints(Flatten([i \in 1..Len(s.players) |->
                             IF i \in seats THEN Flatten(s.players[i].tricksWon)
                             ELSE <<>>]))

\* a finished 3-player round: the picker's tricks hold 39 points and the buried
\* cards 21, the defenders' tricks 60
SixtySixty ==
  LET c(suit, rank) == MakeCard(suit, rank)
      player(i, picks, tricks) ==
        [id |-> PlayerIds[i], isHuman |-> (i = 1), cards |-> <<>>, score |-> 0,
         isDealer |-> (i = 1), isPicker |-> picks, partner |-> "NONE",
         tricksWon |-> tricks]
  IN  [initialState EXCEPT
         !.phase = "PLAYING",
         !.buried = <<c("CLUBS", "ACE"), c("CLUBS", "10")>>,
         !.players =
           << player(1, FALSE,
                <<<<c("DIAMONDS", "ACE"), c("DIAMONDS", "10"), c("HEARTS", "10")>>,
                  <<c("SPADES", "KING"), c("HEARTS", "KING"), c("DIAMONDS", "KING")>>,
                  <<c("SPADES", "QUEEN"), c("HEARTS", "QUEEN"), c("DIAMONDS", "QUEEN")>>>>),
              player(2, TRUE,
                <<<<c("SPADES", "ACE"), c("SPADES", "10"), c("HEARTS", "ACE")>>,
                  <<c("CLUBS", "KING"), c("CLUBS", "QUEEN"), c("CLUBS", "7")>>>>),
              player(3, FALSE,
                <<<<c("CLUBS", "JACK"), c("SPADES", "JACK"), c("HEARTS", "JACK")>>,
                  <<c("DIAMONDS", "JACK"), c("SPADES", "7"), c("SPADES", "8")>>>>) >>]

C14_TeamTotals ==
  /\ calculateGameScore(SixtySixty).pickerTeamScore = 60
  /\ calculateGameScore(SixtySixty).defenderTeamScore = 60
  /\ ~calculateGameScore(SixtySixty).isPicKerTeamWinner
  /\ LET score      == calculateGameScore(state)
         pickerTeam == PickerTeamSeats(state)
         pickerPts  == PointsOfSeats(state, pickerTeam) + calculatePoints(state.buried)
     IN  /\ score.pickerTeamScore = pickerPts
         /\ score.defenderTeamScore =
              PointsOfSeats(state, (1..Len(state.players)) \ pickerTeam)
         /\ score.isPicKerTeamWinner <=> pickerPts >= 61

\* both the picker and the called partner have won points, so have the
\* defenders, and the buried cards hold points
C14_Witness ==
  /\ calculatePoints(state.buried) > 0
  /\ \E i, j, k \in 1..Len(state.players) :
       /\ state.players[i].isPicker /\ state.players[i].partner = state.players[j].id
       /\ i # j /\ k \notin {i, j}
       /\ TrickPoints(state.players[i]) > 0
       /\ TrickPoints(state.players[j]) > 0
       /\ TrickPoints(state.players[k]) > 0


(***************************************************************************)
(* C15: at the end of every round that is not a leaster, the picker team's *)
(* points and the defenders' points add up to 120.                         *)
(***************************************************************************)
C15_PointsAddUpTo120 ==
  (CompletesTrick(state) /\ ~state.isLeaster) =>
    \A card \in AcceptedPlays(state) :
      LET score == calculateGameScore(AfterTrick(state, card))
      IN  PLAY_CARD(state, state.currentTurn, card).phase = "SCORING" =>
            score.pickerTeamScore + score.defenderTeamScore = 120


(***************************************************************************)
(* C16: at the end of a leaster exactly one player's score grows, by that  *)
(* player's own trick points; that player has the most trick points of all *)
(* (the lowest seat among equals), and no other score changes.             *)
(***************************************************************************)
CardPoints(player) == calculatePoints(Flatten(player.tricksWon))

C16_LeasterCreditsTopScorer ==
  (CompletesTrick(state) /\ state.isLeaster) =>
    \A card \in AcceptedPlays(state) :
      LET before == AfterTrick(state, card).players
          after  == PLAY_CARD(state, state.currentTurn, card)
      IN  after.phase = "SCORING" =>
            \E w \in 1..Len(before) :
              /\ \A j \in 1..Len(before) : CardPoints(before[j]) <= CardPoints(before[w])
              /\ \A j \in 1..(w - 1) : CardPoints(before[j]) < CardPoints(before[w])
              /\ after.players[w].score = before[w].score + CardPoints(before[w])
              /\ after.players[w].score > before[w].score
              /\ \A j \in 1..Len(before) :
                   j # w => after.players[j].score = before[j].score

\* a leaster is scored, and a player other than the top scorer has won points
C16_Witness ==
  /\ CompletesTrick(state) /\ state.isLeaster
  /\ \E card \in AcceptedPlays(state) :
       LET before == AfterTrick(state, card).players
           after  == PLAY_CARD(state, state.currentTurn, card)
       IN  /\ after.phase = "SCORING"
           /\ \E w, j \in 1..Len(before) :
                /\ after.players[w].score > before[w].score
                /\ 0 < CardPoints(before[j]) /\ CardPoints(before[j]) < CardPoints(before[w])
                /\ after.players[j].score = before[j].score


(***************************************************************************)
(* C17: the step that leaves SCORING for the PICKING of the next round     *)
(* deals fresh hands and keeps every player's score and the dealer seat    *)
(* that the end of the previous round set, and roundNumber does not go     *)
(* back.                                                                   *)
(***************************************************************************)
C17_NextRoundKeepsScores ==
  [][(state.phase = "SCORING" /\ state'.phase = "PICKING") =>
       /\ Len(state'.players) = Len(state.players)
       /\ \A i \in 1..Len(state.players) :
            /\ state'.players[i].cards # <<>>
            /\ state'.players[i].score = state.players[i].score
            /\ state'.players[i].isDealer = state.players[i].isDealer
       /\ state'.roundNumber >= state.roundNumber]_vars


(***************************************************************************)
(* C18: in every state after START_GAME exactly one player is the dealer   *)
(* and at most one is the picker; exactly one player is the picker in      *)
(* BURYING, in CALLING_PARTNER and in PLAYING without a leaster, and none  *)
(* is in a leaster.                                                        *)
(***************************************************************************)
Dealers(s) == {i \in 1..Len(s.players) : s.players[i].isDealer}

Pickers(s) == {i \in 1..Len(s.players) : s.players[i].isPicker}

C18_OneDealerOnePicker ==
  Len(state.players) > 0 =>
    /\ Cardinality(Dealers(state)) = 1
    /\ Cardinality(Pickers(state)) <= 1
    /\ (\/ state.phase \in {"BURYING", "CALLING_PARTNER"}
        \/ state.phase = "PLAYING" /\ ~state.isLeaster)
         => Cardinality(Pickers(state)) = 1
    /\ state.isLeaster => Pickers(state) = {}

\* tricks have been played in a round whose picker is not the dealer
C18_Witness ==
  /\ state.phase = "PLAYING" /\ ~state.isLeaster /\ state.trickNumber > 0
  /\ Cardinality(Pickers(state)) = 1
  /\ Cardinality(Dealers(state)) = 1
  /\ Pickers(state) # Dealers(state)

(***************************************************************************)
(* C19: isLeaster holds only in PLAYING, with no player the picker, no     *)
(* partner set and an empty buried pile.                                   *)
(***************************************************************************)
C19_LeasterHasNoPicker ==
  state.isLeaster =>
    /\ state.phase = "PLAYING"
    /\ \A i \in 1..Len(state.players) :
         ~state.players[i].isPicker /\ state.players[i].partner = "NONE"
    /\ state.buried = <<>>

\* a leaster of five players, all of whom hold cards, after its first trick
C19_Witness ==
  /\ state.isLeaster /\ state.trickNumber > 0
  /\ Len(state.players) = 5
  /\ \A i \in 1..Len(state.players) : state.players[i].cards # <<>>

(***************************************************************************)
(* C20: an accepted pick by player p makes p the picker, makes p's hand    *)
(* the old hand followed by the whole blind, empties the blind, sets the   *)
(* phase to BURYING and leaves currentTurn equal to p; the other players,  *)
(* the buried pile and the current trick are unchanged.                    *)
(***************************************************************************)
C20_PickEffect ==
  \A p \in 1..Len(state.players) :
    LET after == PICK_BLIND(state, state.players[p].id)
    IN  after # state =>
          /\ after.players[p].isPicker
          /\ after.players[p].cards = state.players[p].cards \o state.deck
          /\ after.deck = <<>>
          /\ after.phase = "BURYING"
          /\ after.currentTurn = state.players[p].id
          /\ \A j \in 1..Len(state.players) :
               j # p => after.players[j] = state.players[j]
          /\ after.buried = state.buried
          /\ after.currentTrick = state.currentTrick


(***************************************************************************)
(* C21: the actions of the players change the phase only from PICKING to   *)
(* BURYING (a pick), from PICKING to PLAYING (the pass that ends the       *)
(* picking), from BURYING to CALLING_PARTNER (5 players) or to PLAYING (3  *)
(* or 4 players), from CALLING_PARTNER to PLAYING and from PLAYING to      *)
(* SCORING; CALLING_PARTNER is reached only with 5 players, after a pick   *)
(* and a bury.                                                             *)
(***************************************************************************)
PlayerPhases == {"PICKING", "BURYING", "CALLING_PARTNER", "PLAYING"}

HasEvent(s, type) == \E i \in 1..Len(s.log) : s.log[i].type = type

C21_PhaseOrder ==
  [][(state.phase \in PlayerPhases /\ state'.phase # state.phase) =>
       \/ /\ state.phase = "PICKING" /\ state'.phase = "BURYING"
          /\ LastEvent(state').type = "PICKED_BLIND"
       \/ /\ state.phase = "PICKING" /\ state'.phase = "PLAYING"
          /\ LastEvent(state').type = "ALL_PASSED" /\ state'.isLeaster
       \/ /\ state.phase = "BURYING" /\ state'.phase = "CALLING_PARTNER"
          /\ Len(state.players) = 5
          /\ HasEvent(state', "PICKED_BLIND") /\ LastEvent(state').type = "BURIED_CARDS"
       \/ /\ state.phase = "BURYING" /\ state'.phase = "PLAYING"
          /\ Len(state.players) \in {3, 4}
       \/ /\ state.phase = "CALLING_PARTNER" /\ state'.phase = "PLAYING"
          /\ LastEvent(state').type = "CALLED_PARTNER"
       \/ /\ state.phase = "PLAYING" /\ state'.phase = "SCORING"]_vars

\* a round of five players has gone through every phase and is being scored
C21_Witness ==
  /\ state.phase = "SCORING" /\ Len(state.players) = 5
  /\ HasEvent(state, "PICKED_BLIND") /\ HasEvent(state, "BURIED_CARDS")
  /\ HasEvent(state, "CALLED_PARTNER") /\ HasEvent(state, "TRICK_COMPLETED")

(***************************************************************************)
(* C22: a player has a partner set only in a game of 5 players, when that  *)
(* player is the picker and the phase is PLAYING; an accepted callPartner  *)
(* of the picker records partnerId on the picker, on nobody else, and      *)
(* moves the phase to PLAYING.                                             *)
(***************************************************************************)
C22_PartnerOnPickerOnly ==
  /\ \A i \in 1..Len(state.players) :
       state.players[i].partner # "NONE" =>
         /\ Len(state.players) = 5
         /\ state.players[i].isPicker
         /\ state.phase = "PLAYING"
  /\ state.phase = "CALLING_PARTNER" =>
       \A p \in 1..Len(state.players) :
         \A partnerId \in AnyId(state) :
           LET after == CALL_PARTNER(state, state.players[p].id, partnerId)
           IN  after # state =>
                 /\ state.players[p].isPicker
                 /\ after.players[p].partner = partnerId
                 /\ \A j \in 1..Len(state.players) :
                      j # p => after.players[j] = state.players[j]
                 /\ after.phase = "PLAYING"

\* tricks have been played by five players after the picker called a partner
C22_Witness ==
  /\ state.phase = "PLAYING" /\ Len(state.players) = 5 /\ state.trickNumber > 0
  /\ \E i, j \in 1..Len(state.players) :
       /\ i # j /\ state.players[i].isPicker
       /\ state.players[i].partner = state.players[j].id


(***************************************************************************)
(* C23: getCardPower is injective over the 32 cards of the deck: no two    *)
(* distinct cards in play have the same power.                             *)
(***************************************************************************)
C23_PowerInjective ==
  \A c1, c2 \in Range(AllHeld(state)) :
    c1 # c2 => getCardPower(c1) # getCardPower(c2)

(***************************************************************************)
(* C24: the deck START_GAME deals from has 32 distinct (suit, rank) cards; *)
(* 14 are trump (the queens, the jacks, the diamonds) and 18 plain; the    *)
(* values add up to 120; every trump has a higher power than every plain   *)
(* card.  The cards of the state just dealt are those cards.               *)
(***************************************************************************)
JustDealt(s) == s.phase = "PICKING" /\ Len(s.log) = 1

DeckComposition(deck) ==
  LET trump == {i \in 1..Len(deck) : deck[i].isTrump}
      plain == {i \in 1..Len(deck) : ~deck[i].isTrump}
  IN  /\ Len(deck) = 32
      /\ Cardinality({<<deck[i].suit, deck[i].rank>> : i \in 1..Len(deck)}) = 32
      /\ \A i \in 1..Len(deck) :
           /\ deck[i].suit \in Range(Suit) /\ deck[i].rank \in Range(Rank)
           /\ deck[i].isTrump <=>
                (deck[i].rank \in {"QUEEN", "JACK"} \/ deck[i].suit = "DIAMONDS")
      /\ Cardinality(trump) = 14
      /\ Cardinality(plain) = 18
      /\ calculatePoints(deck) = 120
      /\ \A i \in trump, j \in plain : getCardPower(deck[i]) > getCardPower(deck[j])

C24_DeckComposition ==
  /\ \A deck \in initializeDeck : DeckComposition(deck)
  /\ JustDealt(state) => DeckComposition(AllHeld(state))

\* a deal has just put trump and plain cards in the hands
C24_Witness ==
  /\ JustDealt(state)
  /\ \E c1, c2 \in Range(AllHeld(state)) : c1.isTrump /\ ~c2.isTrump

(***************************************************************************)
(* C25: for 3, 4 and 5 players and any dealer seat, the hands and the      *)
(* blind dealCards returns hold exactly the cards of the deck dealt, none  *)
(* twice and none lost; the first card goes to the seat after the dealer   *)
(* and the cards are handed out round-robin.                               *)
(***************************************************************************)
\* the players of s before the deal, with the dealer at seat d
Undealt(s, d) ==
  [i \in 1..Len(s.players) |->
     [s.players[i] EXCEPT !.cards = <<>>, !.isDealer = (i = d)]]

Reassembled(d) ==
  Flatten([i \in 1..Len(d.players) |-> d.players[i].cards]) \o d.blind

DealRoundTrip(deck, players, dealer) ==
  LET d == dealCards(deck, players)
      n == Len(players)
      handed == Len(deck) - Len(d.blind)
  IN  /\ Len(Reassembled(d)) = Len(deck)
      /\ Range(Reassembled(d)) = Range(deck)
      /\ \A k \in 0..(handed - 1) :
           d.players[((dealer + k) % n) + 1].cards[(k \div n) + 1] = deck[k + 1]
      /\ d.blind = SubSeq(deck, handed + 1, Len(deck))

C25_DealRoundTrip ==
  JustDealt(state) =>
    /\ \A dealer \in 1..Len(state.players), deck \in initializeDeck :
         DealRoundTrip(deck, Undealt(state, dealer), dealer)
    /\ \E deck \in initializeDeck :
         LET d == dealCards(deck, Undealt(state, DealerIndex(state.players)))
         IN  state.players = d.players /\ state.deck = d.blind

\* four players have just been dealt to
C25_Witness ==
  /\ JustDealt(state) /\ Len(state.players) = 4
  /\ \A i \in 1..Len(state.players) : state.players[i].cards # <<>>

(***************************************************************************)
(* C26: dealCards gives every player cardsPerPlayer cards, 6 with 5        *)
(* players and 10 with 3 or 4 players, and leaves a blind of               *)
(* 32 - playerCount * cardsPerPlayer cards.                                *)
(***************************************************************************)
C26_HandAndBlindSizes ==
  JustDealt(state) =>
    LET n == Len(state.players)
        cardsPerPlayer == IF n = 5 THEN 6 ELSE 10
    IN  /\ \A i \in 1..n : Len(state.players[i].cards) = cardsPerPlayer
        /\ Len(state.deck) = 32 - n * cardsPerPlayer


(***************************************************************************)
(* C27: whenever the player to act is an AI player and the phase is        *)
(* PICKING, BURYING, CALLING_PARTNER or PLAYING, an action of that player  *)
(* is eventually applied (the log grows), also when the step before left   *)
(* the turn and the phase as they were.                                    *)
(***************************************************************************)
AIToAct == state.phase \in PlayerPhases /\ IsAITurn(state)

\* the lengths a log can have: at most two events for every card
LogLengths == 0..(2 * Len(OrderedDeck))

C27_AIActionApplied ==
  \A k \in LogLengths :
    (AIToAct /\ Len(state.log) = k) ~> (Len(state.log) > k)

(***************************************************************************)
(* C28: while the timer of an AI player is pending, the reducer accepts no *)
(* action of any other actor, and the state is the one the timer computes  *)
(* its action from.                                                        *)
(***************************************************************************)
\* a, with any input, is refused in s
Refused(s, a) ==
  /\ PICK_BLIND(s, a) = s
  /\ PASS_BLIND(s, a) = s
  /\ \A cards \in AnyPair : BURY_CARDS(s, a, cards) = s
  /\ \A partnerId \in AnyId(s) : CALL_PARTNER(s, a, partnerId) = s
  /\ \A card \in AllCards : PLAY_CARD(s, a, card) = s

C28_NoOtherActorWhilePending ==
  \A i \in 1..Len(pending) :
    /\ pending[i].captured = state
    /\ \A a \in AnyId(state) \ {pending[i].captured.currentTurn} : Refused(state, a)

(***************************************************************************)
(* C29: after every accepted pick, pass, bury, callPartner or playCard,    *)
(* the cascades of a trick and of a round included, storage holds the      *)
(* state the reducer returned; when the write fails the state is the new   *)
(* one all the same, storage keeps what it held, and the game goes on.     *)
(***************************************************************************)
C29_SavedAfterAccepted ==
  [][(Mounted /\ state' # state) =>
       /\ Len(state'.log) > 0
       /\ IF storage.failing
          THEN storage' = storage
          ELSE /\ storage'.item = <<Serialize(state')>>
               /\ loadGameState(storage') = <<state'>>]_vars

\* a round was played to its end, the last card setting off the cascades of
\* the trick and of the round, and storage holds the scored state
C29_Witness ==
  /\ Mounted /\ ~storage.failing
  /\ state.phase = "SCORING" /\ HasEvent(state, "TRICK_COMPLETED")
  /\ loadGameState(storage) = <<state>>

(***************************************************************************)
(* C30: a stored state that breaks the count of 32 cards is not loaded:    *)
(* the state stays the initial state.                                      *)
(***************************************************************************)
CardCountHolds(s) ==
  /\ Len(AllHeld(s)) = Len(OrderedDeck)
  /\ Cardinality(Range(AllHeld(s))) = Len(OrderedDeck)

C30_MalformedLoadRejected ==
  [][(/\ ~Mounted
      /\ Len(loadGameState(storage)) = 1
      /\ ~CardCountHolds(loadGameState(storage)[1])) => state' = initialState]_vars

\* the events a step from s to t added to the log
Appended(s, t) == SubSeq(t.log, Len(s.log) + 1, Len(t.log))

\* the log of t continues the log of s by at least one event
StrictPrefix(s, t) ==
  /\ Len(t.log) > Len(s.log)
  /\ SubSeq(t.log, 1, Len(s.log)) = s.log

\* the ids of the players whose pile of tricks grew in the step from s to t
TookTrick(s, t) ==
  {s.players[i].id : i \in {k \in 1..Len(s.players) :
      /\ Len(t.players) = Len(s.players)
      /\ \/ Len(t.players[k].tricksWon) > Len(s.players[k].tricksWon)
         \/ t.phase = "SCORING"}}

TrumpForced(card, player, trick, leadSuit) ==
  /\ Len(trick) > 0
  /\ leadSuit # "NONE" /\ trick[1].isTrump /\ ~card.isTrump
  /\ \E i \in 1..Len(player.cards) : player.cards[i].isTrump

C33_CardNotHeldRejected ==
  state.phase = "PLAYING" =>
    \A card \in AllCards \ Range(PlayerOf(state, state.currentTurn).cards) :
      PLAY_CARD(state, state.currentTurn, card) = state

\* the number of tricks in all tricksWon lists
TricksTaken(s) == SumSeq([i \in 1..Len(s.players) |-> Len(s.players[i].tricksWon)])

(***************************************************************************)
(* C34: in every state the reducer returns once players are seated, the    *)
(* current trick holds fewer cards than there are players (the play that   *)
(* completes a trick also resolves it), and during PLAYING trickNumber is  *)
(* the number of tricks in all tricksWon lists.                            *)
(***************************************************************************)
C34_TrickResolvedAtomically ==
  Len(state.players) > 0 =>
    /\ Len(state.currentTrick) < Len(state.players)
    /\ state.phase = "PLAYING" => state.trickNumber = TricksTaken(state)

\* a trick was just completed in a round that goes on: the trick is empty
\* again, its cards are in a tricksWon list and counted by trickNumber
C34_Witness ==
  /\ state.phase = "PLAYING"
  /\ LastEvent(state).type = "TRICK_COMPLETED"
  /\ state.currentTrick = <<>>
  /\ state.trickNumber > 0 /\ state.trickNumber = TricksTaken(state)

\* the card of the PLAYED_CARD event that set off the round's end
LastPlayed(t) == t.log[Len(t.log) - 2].cards[1]

\* the amounts END_ROUND credits at the end of the round that the play of
\* card in s completes: nothing, a team's total, or the leaster winner's points
ScoringCredits(s, card) ==
  LET mid == AfterTrick(s, card)
  IN  IF mid.isLeaster THEN {0, LeasterWinner(mid.players).maxPoints}
      ELSE {0, calculateGameScore(mid).pickerTeamScore,
               calculateGameScore(mid).defenderTeamScore}

(***************************************************************************)
(* C35: the playCard that ends a round (PLAYING to SCORING) moves isDealer *)
(* to the seat after the previous dealer and to no other seat, empties     *)
(* every hand and every tricksWon list, clears every isPicker and partner, *)
(* sets isLeaster to false and trickNumber to 0, adds one to roundNumber,  *)
(* keeps the seats' ids, and changes each score by nothing or by a credit  *)
(* of the round's scoring.                                                 *)
(***************************************************************************)
C35_RoundEndCascade ==
  [][(state.phase = "PLAYING" /\ state'.phase = "SCORING") =>
       LET n == Len(state.players)
       IN  /\ Len(state'.players) = n
           /\ \A i \in 1..n :
                /\ state'.players[i].id = state.players[i].id
                /\ state'.players[i].isDealer
                     = (i = (DealerIndex(state.players) % n) + 1)
                /\ state'.players[i].cards = <<>>
                /\ state'.players[i].tricksWon = <<>>
                /\ ~state'.players[i].isPicker
                /\ state'.players[i].partner = "NONE"
                /\ (state'.players[i].score - state.players[i].score)
                     \in ScoringCredits(state, LastPlayed(state'))
           /\ ~state'.isLeaster
           /\ state'.trickNumber = 0
           /\ state'.roundNumber = state.roundNumber + 1]_vars

\* a round with a picker and a partner has ended: the deal has moved on from
\* the first dealer, a score was credited, and nothing of the round is left
C35_Witness ==
  /\ state.phase = "SCORING" /\ state.roundNumber = 2
  /\ LastEvent(state).type = "ROUND_COMPLETED"
  /\ HasEvent(state, "CALLED_PARTNER")
  /\ ~state.players[1].isDealer /\ state.players[2].isDealer
  /\ \E i \in 1..Len(state.players) : state.players[i].score > 0
  /\ \A i \in 1..Len(state.players) :
       /\ state.players[i].cards = <<>> /\ state.players[i].tricksWon = <<>>
       /\ ~state.players[i].isPicker /\ state.players[i].partner = "NONE"

\* some player still holds a card
HandsNotExhausted(s) == \E i \in 1..Len(s.players) : Len(s.players[i].cards) > 0

(***************************************************************************)
(* C36: END_TRICK, END_ROUND and NEXT_PLAYER dispatched on their own, with *)
(* players seated, return the state they were given when their cascade     *)
(* condition does not hold: END_TRICK when the trick is not full,          *)
(* END_ROUND when hands are not exhausted or the phase is not PLAYING,     *)
(* NEXT_PLAYER when the phase is not PLAYING.                              *)
(***************************************************************************)
C36_InternalActionsOnlyCascade ==
  Len(state.players) > 0 =>
    /\ Len(state.currentTrick) # Len(state.players) => END_TRICK(state) = state
    /\ (HandsNotExhausted(state) \/ state.phase # "PLAYING") => END_ROUND(state) = state
    /\ state.phase # "PLAYING" => NEXT_PLAYER(state) = state

(***************************************************************************)
(* C37: in CALLING_PARTNER a callPartner of the picker that names the      *)
(* picker itself, or an id that is no seated player's, is rejected: the    *)
(* reducer returns the state it was given.                                 *)
(***************************************************************************)
C37_BadPartnerRejected ==
  state.phase = "CALLING_PARTNER" =>
    \A playerId \in {p \in Ids(state) : PlayerOf(state, p).isPicker} :
      /\ CALL_PARTNER(state, playerId, playerId) = state
      /\ \A partnerId \in {"", "nobody"} \ Ids(state) :
           CALL_PARTNER(state, playerId, partnerId) = state

\* the player to act is seated, is not the human and holds a card, in PLAYING
AIToPlay(s) ==
  /\ s.phase = "PLAYING"
  /\ s.currentTurn \in Ids(s) /\ ~PlayerOf(s, s.currentTurn).isHuman
  /\ Len(PlayerOf(s, s.currentTurn).cards) > 0

(***************************************************************************)
(* C38: in every reachable PLAYING state in which the AI player to act     *)
(* holds a card, chooseCardToPlay returns a card of that player's hand     *)
(* that isValidPlay accepts, the PLAY_CARD built from it changes the       *)
(* state, and when exactly one card of the hand is legal it is the card    *)
(* returned.                                                               *)
(***************************************************************************)
C38_AIChoiceIsLegal ==
  AIToPlay(state) =>
    LET player == PlayerOf(state, state.currentTurn)
        card   == chooseCardToPlay(player, state)
        valid  == ValidPlays(player, state)
    IN  /\ card \in Range(player.cards)
        /\ isValidPlay(card, player, state.currentTrick, state.leadSuit)
        /\ PLAY_CARD(state, player.id, card) # state
        /\ Len(valid) = 1 => card = valid[1]

\* an AI follows in a trick holding several cards of which one is legal, and
\* chooseCardToPlay returns that card
C38_Witness ==
  /\ AIToPlay(state)
  /\ Len(state.currentTrick) > 0
  /\ LET player == PlayerOf(state, state.currentTurn)
     IN  /\ Len(player.cards) > 1
         /\ Len(ValidPlays(player, state)) = 1
         /\ chooseCardToPlay(player, state) = ValidPlays(player, state)[1]

(***************************************************************************)
(* chooseBuryCards over more deals: a specification of its own, whose      *)
(* initial states are the deals of BuryDecks shuffles to 3, 4 and 5        *)
(* players, and whose steps are the picks and passes of PICKING and the    *)
(* bury of the AI's choice.                                                *)
(***************************************************************************)
BuryDecks == 8

InitBury ==
  /\ \E k \in 0..(BuryDecks - 1), playerCount \in PlayerCounts :
       state = START_GAME(initialState, Roster(playerCount), ShuffledDeck(k))
  /\ storage = EmptyStorage /\ pending = <<>> /\ deps = <<>>

\* handleAITurn in BURYING: the picker buries what chooseBuryCards returns
AIBury ==
  /\ state.phase = "BURYING"
  /\ \E i \in {k \in 1..Len(state.players) : state.players[k].isPicker} :
       state' = BURY_CARDS(state, state.players[i].id,
                           chooseBuryCards(state.players[i], <<>>))
  /\ Dispatched

NextBury == PickBlind \/ PassBlind \/ AIBury

SpecBury == InitBury /\ [][NextBury]_vars

(***************************************************************************)
(* C39: for every picker in BURYING, chooseBuryCards on the picker's hand  *)
(* (the blind already merged into it) returns exactly 2 distinct cards of  *)
(* that hand, and returns a trump only if every plain card of the hand is  *)
(* returned too.                                                           *)
(***************************************************************************)
C39_BuryKeepsTrump ==
  state.phase = "BURYING" =>
    \A i \in {k \in 1..Len(state.players) : state.players[k].isPicker} :
      LET hand    == state.players[i].cards
          buried  == chooseBuryCards(state.players[i], <<>>)
      IN  /\ Len(buried) = 2
          /\ buried[1] # buried[2]
          /\ Range(buried) \subseteq Range(hand)
          /\ (\E k \in 1..2 : buried[k].isTrump) =>
               \A k \in 1..Len(hand) : ~hand[k].isTrump => hand[k] \in Range(buried)

\* the seat of the player who played the j-th card of the current trick: the
\* turn went round the table from the leader to the player to act
TrickSeat(s, j) ==
  LET n == Len(s.players)
  IN  ((ToActIndex(s) - 1 - Len(s.currentTrick) + (j - 1) + n) % n) + 1

\* the player who played the card that is winning the current trick
CurrentWinner(s) ==
  s.players[TrickSeat(s, WinningIndex(s.currentTrick, s.leadSuit))]

\* the lowest-value legal card, as chooseFollowCard sorts for it
Sandbag(validPlays) == First(SortBy(validPlays, ValueKey))

\* the lowest-power legal card that beats the winning card of the trick
LowestWinner(s, validPlays) ==
  First(SortBy(SelectSeq(validPlays,
                         LAMBDA card :
                           Beats(card,
                                 s.currentTrick[WinningIndex(s.currentTrick, s.leadSuit)],
                                 s.leadSuit)),
               PowerKey))

(***************************************************************************)
(* C40: when an AI with more than one legal card follows in a trick,       *)
(* chooseFollowCard returns the lowest-value legal card if the player who  *)
(* played the winning card is on the AI's team, whichever seat led; and if *)
(* that player is not on its team, the AI being picker or partner or the   *)
(* trick holding 10 points or more, and a legal card can win, it returns   *)
(* the lowest-power winning card and not the sandbag.                      *)
(***************************************************************************)
C40_SandbagIffTeammateWinning ==
  (AIToPlay(state) /\ Len(state.currentTrick) > 0) =>
    LET player  == PlayerOf(state, state.currentTurn)
        valid   == ValidPlays(player, state)
        choice  == chooseFollowCard(player, valid, state)
        tryWin  == /\ \/ player.isPicker \/ IsPartner(player, state)
                      \/ calculatePoints(state.currentTrick) >= 10
                   /\ LowestWinner(state, valid) # <<>>
    IN  Len(valid) > 1 =>
          IF isPlayerOnSameTeam(CurrentWinner(state), player, state)
          THEN choice = Sandbag(valid)
          ELSE tryWin => choice = LowestWinner(state, valid)

====
